---- MODULE Spec2Model ----
(***************************************************************************)
(* The static-site synchronizer of my-awesome-site/infra/upload.ts: a      *)
(* stack reference is read for the websiteBucket output, and once it is    *)
(* known the build directory "../out" is walked recursively, one           *)
(* gcp.storage.BucketObject being created per file.                        *)
(*                                                                         *)
(* Strings are TLA+ strings built with \o exactly as the code builds them  *)
(* with path.join and template literals.  The file system, the stack       *)
(* backend, the host path separator and the failing uploads are the        *)
(* environment: they are drawn in Init and the program never writes them;  *)
(* the only change to the disk is a file deleted by someone else.          *)
(***************************************************************************)
EXTENDS Naturals, Sequences, FiniteSets, TLC

VARIABLES
    sep,        \* path.sep of the host: "/" (posix) or "\\" (win32)
    rootKind,   \* what "../out" is on disk: "dir", "file" or "missing"
    tree,       \* the nodes below "../out": records [path, kind]
    backend,    \* the stack the StackReference names: [exists, outputs]
    faulty,     \* source paths whose BucketObject creation throws
    removed,    \* files deleted from disk after they were listed: [run, path]
    identity,   \* what the script runs as: [organization, project, stack]
    reference,  \* the StackReference of this run: [name, output]
    pc,         \* position of the script: start, resolved, walking, done, failed
    output,     \* the Output<websiteBucket>: pending, resolved(value), rejected
    stack,      \* activation records of uploadDirectory, innermost last
    objects,    \* BucketObject resources created by this run, in order
    log,        \* console.log lines of this run, in order
    reads,      \* directory paths handed to fs.readdirSync by this run, in order
    error,      \* the error the run ended with, "none" if none
    remote,     \* the objects the buckets hold (survives between runs)
    run,        \* number of the current run of the script, from 1
    history,    \* one record per finished run
    inflight,   \* objects this run has registered and the engine has not stored yet
    config,     \* the stack configuration value of "projectName"
    clock,      \* the last value Date.now() gave
    job,        \* the workflow job: [status, passed, push]
    resources,  \* the resources of the deployed stack, by logical name
    traffic,    \* the answers of the load balancer to the requests so far
    evaluations \* the runs of the stack's program so far: [stack, now, bucketName]

env  == <<sep, rootKind, tree, backend, faulty, removed, identity>>
site == <<config, clock, job, resources, traffic, evaluations>>
vars == <<sep, rootKind, tree, backend, faulty, removed, identity, reference,
          pc, output, stack, objects, log, reads, error, remote, run, history,
          inflight, config, clock, job, resources, traffic, evaluations>>

----------------------------------------------------------------------------
(* Bounds of the model *)

MaxNodes == 4     \* nodes (files and directories) below the local root
MaxFaults == 1    \* files whose upload is made to fail
MaxRuns == 2      \* consecutive runs of the script
MaxRemovals == 1  \* files deleted from disk while the script runs
MaxLinks == 1     \* symbolic links one path resolution follows before ELOOP
MaxLinkNodes == 3 \* nodes below the local root when it holds symbolic links
MaxClock == 2     \* values of Date.now()
MaxPushes == 2    \* pushes to main, each of which starts the workflow
MaxRequests == 3  \* requests sent to the load balancer

----------------------------------------------------------------------------
(* JavaScript values *)

Undefined == [type |-> "undefined"]
Str(s) == [type |-> "string", value |-> s]

\* if (name): undefined and "" are falsy
Defined(v) == v.type = "string"
Truthy(v) == v.type = "string" /\ v.value # ""

----------------------------------------------------------------------------
(* The file system *)

File(p) == [path |-> p, kind |-> "file"]
Dir(p) == [path |-> p, kind |-> "dir"]

\* The nodes a build output may hold
Universe ==
    { File(<<"index.html">>), File(<<"style.css">>), File(<<"LICENSE">>),
      Dir(<<"assets">>),
      File(<<"assets", "index.html">>),
      Dir(<<"assets", "img">>),
      File(<<"assets", "img", "logo.png">>) }

Parent(p) == SubSeq(p, 1, Len(p) - 1)
BaseName(p) == p[Len(p)]

\* Every node's parent directory is in the tree too
Closed(t) ==
    \A n \in t : Len(n.path) > 1 => Dir(Parent(n.path)) \in t

Trees == { t \in SUBSET Universe : Cardinality(t) <= MaxNodes /\ Closed(t) }

FilesOf(t) == { n \in t : n.kind = "file" }
DirsOf(t) == { n \in t : n.kind = "dir" }

\* const staticSitePath = "../out"
staticSitePath == "../out"

\* path.normalize on the paths of this model: the literal "../out" is
\* rewritten with the host separator; every other path was produced by
\* path.join and already is normalized
normalize(s) == IF s = staticSitePath THEN ".." \o sep \o "out" ELSE s

\* path.join(a, b): empty segments are dropped, the rest joined with path.sep
\* and normalized
join(a, b) == IF a = "" THEN b ELSE normalize(a) \o sep \o b

\* The host's path of a node: the root followed by the node's segments
RECURSIVE HostPath(_)
HostPath(p) ==
    IF p = <<>> THEN normalize(staticSitePath)
    ELSE HostPath(Parent(p)) \o sep \o BaseName(p)

\* A place on disk: below the local root ("in") or in a directory that lies
\* outside of it ("out")
In(q) == [zone |-> "in", path |-> q]
Out(q) == [zone |-> "out", path |-> q]

\* A symbolic link at path p to the place t
Link(p, t) == [path |-> p, kind |-> "link", target |-> t]

\* The files of the directory outside the local root
OutsideFiles == {"id_rsa"}

\* The nodes a build output with symbolic links may hold: a link to the
\* local root itself and a link to the outside directory
LinkUniverse ==
    Universe \cup { Link(<<"current">>, In(<<>>)), Link(<<"shared">>, Out(<<>>)) }

LinkTrees ==
    { t \in SUBSET LinkUniverse :
        /\ Cardinality(t) <= MaxLinkNodes
        /\ Closed(t)
        /\ \E n \in t : n.kind = "link" }

\* What a place is: "dir", "file", "link" or "missing"
LocKind(l) ==
    IF l.zone = "out" THEN (IF l.path = <<>> THEN "dir" ELSE "file")
    ELSE IF l.path = <<>> THEN rootKind
    ELSE IF \E n \in tree : n.path = l.path
         THEN (CHOOSE n \in tree : n.path = l.path).kind
         ELSE "missing"

\* The names in the directory at place l
Children(l) ==
    IF l.zone = "out" THEN OutsideFiles
    ELSE { BaseName(n.path) : n \in { m \in tree : Parent(m.path) = l.path } }

\* The entry `name` of the directory at place l is a symbolic link
IsLinkEntry(l, name) == l.zone = "in" /\ LocKind(In(Append(l.path, name))) = "link"

\* The place the entry `name` of the directory at place l leads to; a
\* symbolic link is followed
Follow(l, name) ==
    IF IsLinkEntry(l, name)
    THEN (CHOOSE n \in tree : n.path = Append(l.path, name)).target
    ELSE [zone |-> l.zone, path |-> Append(l.path, name)]

\* The place a sequence of names leads to from the local root
RECURSIVE Locate(_)
Locate(p) == IF p = <<>> THEN In(<<>>) ELSE Follow(Locate(Parent(p)), BaseName(p))

\* The number of symbolic links followed on the way
RECURSIVE LinkCount(_)
LinkCount(p) ==
    IF p = <<>> THEN 0
    ELSE LinkCount(Parent(p))
         + (IF IsLinkEntry(Locate(Parent(p)), BaseName(p)) THEN 1 ELSE 0)

\* The names that lead from the local root to the directory of the k-th
\* activation of uploadDirectory: the entry each caller is at
WalkSegs(k) == [j \in 1..(k - 1) |-> stack[j].files[stack[j].i - 1]]

\* The sequences of names whose host path the script can spell: the root,
\* the nodes of the tree, and the entry the innermost activation is at
LogicalPaths ==
    {<<>>} \cup { n.path : n \in tree }
    \cup (IF stack # <<>> /\ stack[Len(stack)].i <= Len(stack[Len(stack)].files)
          THEN { Append(WalkSegs(Len(stack)),
                        stack[Len(stack)].files[stack[Len(stack)].i]) }
          ELSE {})

\* The sequence of names a host path string spells
Lookup(s) == CHOOSE p \in LogicalPaths : HostPath(p) = s

\* The locations that exist on disk and their kind
Exists(s) ==
    /\ \E p \in LogicalPaths : HostPath(p) = s /\ LocKind(Locate(p)) # "missing"

KindAt(s) == LocKind(Locate(Lookup(s)))

\* fs.statSync(p): the error code it throws, or "ok"
statError(p) ==
    IF ~Exists(normalize(p)) THEN "ENOENT"
    ELSE IF LinkCount(Lookup(normalize(p))) > MaxLinks THEN "ELOOP"
    ELSE "ok"

\* stat.isDirectory()
NeverDirectory(p) == FALSE
isDirectory(p) == KindAt(normalize(p)) = "dir"

\* fs.readdirSync(p): the error code it throws, or "ok"
readdirError(p) ==
    IF statError(p) # "ok" THEN statError(p)
    ELSE IF KindAt(normalize(p)) # "dir" THEN "ENOTDIR"
    ELSE "ok"

\* The names in directory p
Entries(p) == Children(Locate(Lookup(normalize(p))))

\* All orders in which a set of names can be listed
Orders(S) ==
    { f \in [1..Cardinality(S) -> S] : \A i, j \in 1..Cardinality(S) : f[i] = f[j] => i = j }

\* fs.readdirSync(p) returns the names of p in an order the host chooses
readdirSync(p) == Orders(Entries(p))

----------------------------------------------------------------------------
(* The stack backend *)

BucketId == "site-bucket"

NoStack == [exists |-> FALSE, outputs |-> <<>>]
StackWith(outs) == [exists |-> TRUE, outputs |-> outs]

Backends ==
    { NoStack,
      StackWith("websiteUrl" :> "https://203.0.113.7"),
      StackWith("websiteBucket" :> "" @@ "websiteUrl" :> "https://203.0.113.7"),
      StackWith("websiteBucket" :> BucketId @@ "websiteUrl" :> "https://203.0.113.7") }

\* stack.getOutput(n) on an existing stack: undefined when the output is absent
getOutput(n) ==
    IF n \in DOMAIN backend.outputs THEN Str(backend.outputs[n]) ELSE Undefined

\* The organization, project and stack the script may run as
Identities ==
    [organization : {"binarygaragedev", "acme"},
     project : {"my-awesome-site", "infra"},
     stack : {"dev", "prod"}]

\* The repository's own organization and project, and the workflow's stack
Developer ==
    [organization |-> "binarygaragedev", project |-> "my-awesome-site", stack |-> "dev"]

\* What a template literal writes for a function value: the function's text
FunctionText(f) == "function " \o f \o "() { [code] }"

\* The documented name: `${organization}/${project}/${stack}`
CalledStackName(id) == id.organization \o "/" \o id.project \o "/" \o id.stack

\* `${pulumi.getOrganization()}/${pulumi.getProject}/${pulumi.getStack()}`:
\* getOrganization and getStack are called, getProject is not
StackName(id) ==
    id.organization \o "/" \o FunctionText("getProject") \o "/" \o id.stack

\* new pulumi.StackReference(name) and the output read from it
StackReference(id, out) == [name |-> StackName(id), output |-> out]

\* No StackReference has been made
NoReference == [name |-> "", output |-> ""]

Pending == [state |-> "pending"]
Rejected == [state |-> "rejected"]
Resolved(v) == [state |-> "resolved", value |-> v]

----------------------------------------------------------------------------
(* index.ts: the program of the stack *)

\* The values the stack configuration may hold for "projectName"
Configs == {Undefined, Str(""), Str("acme")}

\* config.require("projectName") throws when the value is missing
requireThrows(cfg) == cfg = Undefined

\* config.require("projectName") || "my-awesome-site"
projectName(cfg) == IF Truthy(cfg) THEN cfg.value ELSE "my-awesome-site"

\* The decimal digits of a number, as a template literal writes it
Digit(d) == <<"0", "1", "2", "3", "4", "5", "6", "7", "8", "9">>[d + 1]
RECURSIVE Decimal(_)
Decimal(n) == IF n < 10 THEN Digit(n) ELSE Decimal(n \div 10) \o Digit(n % 10)

\* `${projectName}-${Date.now()}`
bucketName(cfg, now) == projectName(cfg) \o "-" \o Decimal(now)

\* The random suffixes the engine may append to a logical name to make the
\* physical name of a resource that was given no name of its own
Suffixes == {"a1b2c3d", "e4f5a6b"}

\* The address the cloud reserves for the stack
Address == "203.0.113.7"

\* The selfLink the cloud gives the resource of logical name n
selfLink(n) == "selfLink/" \o n

\* new gcp.storage.Bucket(bucketName, {...})
bucket(cfg, now, sfx) ==
    [type |-> "storage.Bucket",
     name |-> bucketName(cfg, now) \o "-" \o sfx,
     location |-> "US",
     mainPageSuffix |-> "index.html",
     notFoundPage |-> "404.html",
     uniformBucketLevelAccess |-> TRUE,
     forceDestroy |-> TRUE]

\* new gcp.storage.BucketIAMBinding("bucket-iam-binding", {...})
bucketIAMBinding(b) ==
    [type |-> "storage.BucketIAMBinding",
     bucket |-> b.name,
     role |-> "roles/storage.objectViewer",
     members |-> {"allUsers"}]

\* new gcp.compute.BackendBucket("backend-bucket", {...})
DetachedBackendBucket(b) ==
    [type |-> "compute.BackendBucket",
     selfLink |-> selfLink("backend-bucket"),
     bucketName |-> "backend-bucket",
     enableCdn |-> TRUE]
backendBucket(b) ==
    [type |-> "compute.BackendBucket",
     selfLink |-> selfLink("backend-bucket"),
     bucketName |-> b.name,
     enableCdn |-> TRUE]

\* new gcp.compute.GlobalAddress("static-ip", {})
staticIp == [type |-> "compute.GlobalAddress", address |-> Address]

\* new gcp.compute.URLMap("url-map", {defaultService: backendBucket.selfLink})
urlMap ==
    [type |-> "compute.URLMap",
     selfLink |-> selfLink("url-map"),
     defaultService |-> selfLink("backend-bucket")]

\* new gcp.compute.ManagedSslCertificate("ssl-certificate", {...})
sslCertificate(cfg) ==
    [type |-> "compute.ManagedSslCertificate",
     selfLink |-> selfLink("ssl-certificate"),
     domains |-> <<projectName(cfg) \o ".example.com">>]

\* new gcp.compute.TargetHttpsProxy("target-https-proxy", {...})
targetHttpsProxy ==
    [type |-> "compute.TargetHttpsProxy",
     selfLink |-> selfLink("target-https-proxy"),
     urlMap |-> urlMap.selfLink,
     sslCertificates |-> <<selfLink("ssl-certificate")>>]

\* new gcp.compute.GlobalForwardingRule("https-forwarding-rule", {...})
httpsForwardingRule ==
    [type |-> "compute.GlobalForwardingRule",
     target |-> targetHttpsProxy.selfLink,
     portRange |-> "443",
     ipAddress |-> staticIp.address,
     loadBalancingScheme |-> "EXTERNAL"]

\* new gcp.compute.TargetHttpProxy("target-http-proxy", {urlMap: urlMap.selfLink})
targetHttpProxy ==
    [type |-> "compute.TargetHttpProxy",
     selfLink |-> selfLink("target-http-proxy"),
     urlMap |-> urlMap.selfLink]

\* new gcp.compute.GlobalForwardingRule("http-forwarding-rule", {...})
httpForwardingRule ==
    [type |-> "compute.GlobalForwardingRule",
     target |-> targetHttpProxy.selfLink,
     portRange |-> "80",
     ipAddress |-> staticIp.address,
     loadBalancingScheme |-> "EXTERNAL"]

\* The resources the program registers, by logical name
Program(cfg, now, sfx) ==
    (bucketName(cfg, now) :> bucket(cfg, now, sfx))
    @@ ("bucket-iam-binding" :> bucketIAMBinding(bucket(cfg, now, sfx)))
    @@ ("backend-bucket" :> backendBucket(bucket(cfg, now, sfx)))
    @@ ("static-ip" :> staticIp)
    @@ ("url-map" :> urlMap)
    @@ ("ssl-certificate" :> sslCertificate(cfg))
    @@ ("target-https-proxy" :> targetHttpsProxy)
    @@ ("https-forwarding-rule" :> httpsForwardingRule)
    @@ ("target-http-proxy" :> targetHttpProxy)
    @@ ("http-forwarding-rule" :> httpForwardingRule)

\* export const websiteBucket, websiteUrl, bucketWebsiteUrl
Exports(b) ==
    ("websiteBucket" :> b.name)
    @@ ("websiteUrl" :> "https://" \o staticIp.address)
    @@ ("bucketWebsiteUrl" :> "http://" \o b.name \o ".storage.googleapis.com")

\* No stack has been deployed
NoResources == <<>>

\* The resource of the deployed stack that has the selfLink l
BySelfLink(l) ==
    CHOOSE r \in { resources[n] : n \in DOMAIN resources } :
        "selfLink" \in DOMAIN r /\ r.selfLink = l

\* The forwarding rule of the deployed stack that listens on the port
RuleOn(port) ==
    CHOOSE r \in { resources[n] : n \in DOMAIN resources } :
        r.type = "compute.GlobalForwardingRule" /\ r.portRange = port

\* What the load balancer answers to a request on the port: the rule's target
\* proxy hands the request to its URL map, which redirects when it has a
\* default redirect and otherwise serves from its default service
Answer(port) ==
    LET proxy == BySelfLink(RuleOn(port).target)
        map == BySelfLink(proxy.urlMap)
        scheme == IF proxy.type = "compute.TargetHttpsProxy" THEN "https" ELSE "http"
    IN  IF "defaultUrlRedirect" \in DOMAIN map
        THEN [port |-> port, scheme |-> scheme, answer |-> "redirect",
              from |-> map.selfLink]
        ELSE [port |-> port, scheme |-> scheme, answer |-> "content",
              from |-> BySelfLink(map.defaultService).bucketName]

----------------------------------------------------------------------------
(* The workflow *)

\* The steps of the job build-and-deploy, in the order of the file
Steps ==
    <<"Checkout", "Setup Node.js", "Install dependencies", "Build static site",
      "Setup Pulumi", "Deploy infrastructure", "Upload static site">>

\* No workflow runs: the script was started by hand
NoJob == [status |-> "none", passed |-> <<>>, push |-> 0, error |-> "none"]

\* The job a push to main starts
NewJob(n) == [status |-> "running", passed |-> <<>>, push |-> n, error |-> "none"]

\* The position of a step in the job
RECURSIVE IndexOf(_, _)
IndexOf(name, k) == IF Steps[k] = name THEN k ELSE IndexOf(name, k + 1)

\* A step runs when the job is running and every step before it has succeeded
RunsInAnyOrder(name) == job.status = "running"
Runnable(name) == job.status = "running" /\ Len(job.passed) = IndexOf(name, 1) - 1

\* The step succeeded; the job succeeds with its last step
Passed(name) ==
    [job EXCEPT !.passed = Append(@, name),
                !.status = IF name = Steps[Len(Steps)] THEN "succeeded" ELSE @]

\* The step failed, and with it the job: no later step runs
Failed(why) == [job EXCEPT !.status = "failed", !.error = why]

\* The error of config.require for a value that is not set
MissingConfig == "Missing required configuration variable 'projectName'"

----------------------------------------------------------------------------
(* uploadDirectory *)

\* An activation record of uploadDirectory(bucketName, directoryPath, prefix):
\* its arguments, the listing `files` and the position i of the for loop
SwappedFrame(b, d, pfx, fs) ==
    [bucketName |-> d, directoryPath |-> b, prefix |-> pfx, files |-> fs, i |-> 1]
Frame(b, d, pfx, fs) ==
    [bucketName |-> b, directoryPath |-> d, prefix |-> pfx, files |-> fs, i |-> 1]

Top == stack[Len(stack)]
Below == SubSeq(stack, 1, Len(stack) - 1)

\* const file of files
CurrentFile == Top.files[Top.i]

\* const filePath = path.join(directoryPath, file)
filePath == join(Top.directoryPath, CurrentFile)

\* const objectName = path.join(prefix, file)
FlatObjectName(pfx, file) == file
StampedObjectName(pfx, file) == join(pfx, file) \o "-" \o <<"t1", "t2", "t3", "t4">>[run]
objectName(pfx, file) == join(pfx, file)

\* const contentType = "application/octet-stream"
UnsetContentType(path) == ""
contentType(path) == "application/octet-stream"

\* cacheControl: "public, max-age=3600"
cacheControl(ctype) == "public, max-age=3600"

\* new gcp.storage.BucketObject(objectName, {bucket, source, name, contentType, cacheControl})
BucketObject(b, path, key) ==
    [urn |-> key, bucket |-> b, source |-> path, name |-> key,
     contentType |-> contentType(path),
     cacheControl |-> cacheControl(contentType(path))]

\* What the store holds once the resource is created: the object named
\* o.name of bucket o.bucket is created or overwritten
Stored(o) ==
    [bucket |-> o.bucket, name |-> o.name, source |-> o.source,
     contentType |-> o.contentType, cacheControl |-> o.cacheControl]

WipeAndStore(store, o) == { Stored(o) }
Upsert(store, o) ==
    { r \in store : ~(r.bucket = o.bucket /\ r.name = o.name) } \cup { Stored(o) }

\* The loop's position after the frame's current entry
AdvanceTwice(f) == [f EXCEPT !.i = f.i + 2]
Advance(f) == [f EXCEPT !.i = f.i + 1]

\* await uploadDirectory(...): the callee's activation f runs to its end
\* before the caller's loop goes on
Spawn(st, f) == <<f>> \o st
Call(st, f) == Append(st, f)

\* The exception leaves every activation of uploadDirectory and rejects the
\* promise of the apply callback: nothing catches it
Throw(code) ==
    /\ pc' = "failed"
    /\ error' = code
    /\ stack' = <<>>

----------------------------------------------------------------------------
(* The script *)

Snapshot ==
    [outcome |-> pc, remote |-> remote, tree |-> tree]

\* The script starts; the disk holds one of the trees T
InitOver(T, Ids) ==
    /\ identity \in Ids
    /\ reference = NoReference
    /\ sep \in {"/", "\\"}
    /\ rootKind \in {"dir", "file", "missing"}
    /\ tree \in T
    /\ rootKind # "dir" => tree = {}
    /\ backend \in Backends
    /\ faulty \in { F \in SUBSET { HostPath(n.path) : n \in FilesOf(tree) } :
                      Cardinality(F) <= MaxFaults }
    /\ removed = {}
    /\ config = Undefined
    /\ clock = 1
    /\ job = NoJob
    /\ resources = NoResources
    /\ traffic = <<>>
    /\ evaluations = <<>>
    /\ inflight = {}
    /\ pc = "start"
    /\ output = Pending
    /\ stack = <<>>
    /\ objects = <<>>
    /\ log = <<>>
    /\ reads = <<>>
    /\ error = "none"
    /\ remote = {}
    /\ run = 1
    /\ history = <<>>

\* A build output of files and directories
Init == InitOver(Trees, {Developer})

\* A build output that holds symbolic links
InitLinks == InitOver(LinkTrees, {Developer}) /\ rootKind = "dir"

\* new pulumi.StackReference(...); stack.getOutput("websiteBucket"): the
\* output resolves to the stack's value, or is rejected when the stack cannot
\* be read
ResolveOutput ==
    /\ pc = "start"
    /\ IF backend.exists
       THEN /\ output' = Resolved(getOutput("websiteBucket"))
            /\ pc' = "resolved"
            /\ error' = error
       ELSE /\ output' = Rejected
            /\ pc' = "failed"
            /\ error' = "StackReferenceError"
    /\ reference' = StackReference(identity, "websiteBucket")
    /\ UNCHANGED <<site, env, inflight, stack, objects, log, reads, remote, run, history>>

\* bucketName.apply runs its callback once the output's value is known, and
\* with that value: the values delivered to the callback in this state
EagerDelivered == IF pc \in {"start", "resolved"} THEN {Str(BucketId)} ELSE {}
Delivered == IF pc = "resolved" /\ output.state = "resolved" THEN {output.value} ELSE {}

\* bucketName.apply(async (name) => { if (name) {...} }) up to the first
\* fs.readdirSync of uploadDirectory(name, staticSitePath)
ApplyCallback ==
    /\ \E name \in Delivered :
       IF ~Truthy(name)
       THEN /\ pc' = "done"
            /\ UNCHANGED <<stack, log, reads, error>>
       ELSE /\ log' = Append(log, "Uploading static site to bucket: " \o name.value)
            /\ reads' = Append(reads, staticSitePath)
            /\ IF readdirError(staticSitePath) # "ok"
               THEN Throw(readdirError(staticSitePath))
               ELSE /\ \E fs \in readdirSync(staticSitePath) :
                         stack' = <<Frame(name.value, staticSitePath, "", fs)>>
                    /\ pc' = "walking"
                    /\ error' = error
    /\ UNCHANGED <<site, env, reference, inflight, output, objects, remote, run, history>>

\* A loop iteration on a directory entry: the recursive call
\* await uploadDirectory(bucketName, filePath, path.join(prefix, file)) up to
\* its fs.readdirSync
VisitDirectory ==
    /\ pc = "walking"
    /\ Top.i <= Len(Top.files)
    /\ statError(filePath) = "ok"
    /\ isDirectory(filePath)
    /\ reads' = Append(reads, filePath)
    /\ \E fs \in readdirSync(filePath) :
         stack' = Call(Below \o <<Advance(Top)>>,
                       Frame(Top.bucketName, filePath, join(Top.prefix, CurrentFile), fs))
    /\ UNCHANGED <<site, env, reference, inflight, pc, output, objects, log, error, remote, run, history>>

\* A loop iteration on a file: the BucketObject is created and the line
\* "Uploaded: <objectName>" is printed
UploadFile ==
    /\ pc = "walking"
    /\ Top.i <= Len(Top.files)
    /\ statError(filePath) = "ok"
    /\ ~isDirectory(filePath)
    /\ filePath \notin faulty
    /\ LET key == objectName(Top.prefix, CurrentFile)
           o == BucketObject(Top.bucketName, filePath, key) IN
         /\ objects' = Append(objects, o)
         /\ log' = Append(log, "Uploaded: " \o key)
         /\ inflight' = inflight \cup {o}
    /\ stack' = Below \o <<Advance(Top)>>
    /\ UNCHANGED <<site, env, reference, pc, output, reads, error, remote, run,
                   history>>

\* The errors a failing creation throws: a transient store failure or a
\* permission failure
UploadFailures == {"UploadError", "AuthError"}

\* A loop iteration on a file whose upload fails: the constructor throws
UploadThrows ==
    /\ pc = "walking"
    /\ Top.i <= Len(Top.files)
    /\ statError(filePath) = "ok"
    /\ ~isDirectory(filePath)
    /\ filePath \in faulty
    /\ \E e \in UploadFailures : Throw(e)
    /\ UNCHANGED <<site, env, reference, inflight, output, objects, log, reads, remote, run, history>>

\* A loop iteration on an entry that fs.statSync cannot stat (deleted since
\* it was listed, or too many symbolic links): statSync throws
StatThrows ==
    /\ pc = "walking"
    /\ Top.i <= Len(Top.files)
    /\ statError(filePath) # "ok"
    /\ Throw(statError(filePath))
    /\ UNCHANGED <<site, env, reference, inflight, output, objects, log, reads, remote, run, history>>

\* Someone deletes a file that the walk has listed and not yet reached.  The
\* script cannot tell when between fs.readdirSync and fs.statSync the file
\* went away, so the deletion is taken just before the file's fs.statSync
RemoveFile ==
    /\ pc = "walking"
    /\ Cardinality(removed) < MaxRemovals
    /\ Top.i <= Len(Top.files)
    /\ \E n \in FilesOf(tree) :
         /\ HostPath(n.path) = normalize(filePath)
         /\ tree' = tree \ {n}
         /\ removed' = removed \cup {[run |-> run, path |-> HostPath(n.path)]}
    /\ UNCHANGED <<site, inflight, identity, reference, sep, rootKind, backend, faulty,
                   pc, output, stack, objects, log, reads, error, remote, run, history>>

\* The for loop of the innermost activation is over: it returns to its
\* caller, and the outermost one ends the apply callback
ReturnFromDirectory ==
    /\ pc = "walking"
    /\ Top.i > Len(Top.files)
    /\ stack' = Below
    /\ pc' = IF Below = <<>> THEN "done" ELSE "walking"
    /\ UNCHANGED <<site, env, reference, inflight, output, objects, log, reads, error, remote, run, history>>

\* The exit code of the process: a rejected apply callback is an unhandled
\* rejection, which ends the process with a non-zero code
ExitCode == IF pc = "failed" THEN 1 ELSE 0

\* new gcp.storage.BucketObject(...) returns once the object is registered;
\* the engine creates it afterwards, at a moment of its own: one of the
\* registered objects is created or overwritten in its bucket
Settle ==
    /\ \E o \in inflight :
         /\ remote' = Upsert(remote, o)
         /\ inflight' = inflight \ {o}
    /\ UNCHANGED <<site, env, reference, pc, output, stack, objects, log, reads,
                   error, run, history>>

\* The script is run again (npx ts-node upload.ts): a new process, the
\* same disk, stack and buckets.  A process whose callback returned ends once
\* the engine has stored every registered object; one that failed leaves
\* behind what the engine had not stored yet
RunAgain ==
    /\ pc \in {"done", "failed"}
    /\ pc = "done" => inflight = {}
    /\ run < MaxRuns
    /\ history' = Append(history, Snapshot)
    /\ run' = run + 1
    /\ pc' = "start"
    /\ output' = Pending
    /\ stack' = <<>>
    /\ objects' = <<>>
    /\ log' = <<>>
    /\ reads' = <<>>
    /\ error' = "none"
    /\ inflight' = {}
    /\ reference' = NoReference
    /\ UNCHANGED <<site, env, remote>>

Next ==
    \/ ResolveOutput
    \/ ApplyCallback
    \/ VisitDirectory
    \/ UploadFile
    \/ UploadThrows
    \/ StatThrows
    \/ ReturnFromDirectory
    \/ RemoveFile
    \/ Settle
    \/ RunAgain

Spec == Init /\ [][Next]_vars

\* The same script over a build output with symbolic links
SpecLinks == InitLinks /\ [][Next]_vars

----------------------------------------------------------------------------
(* One run of the script *)

\* One run of the script in which no creation throws
InitEngine == InitOver(Trees, Identities) /\ faulty = {}

NextEngine ==
    \/ ResolveOutput
    \/ ApplyCallback
    \/ VisitDirectory
    \/ UploadFile
    \/ ReturnFromDirectory
    \/ Settle

SpecEngine == InitEngine /\ [][NextEngine]_vars

----------------------------------------------------------------------------
(* The deployment pipeline *)

\* A push to main on a project that has no stack yet; the runner is a Linux
\* host with a fresh checkout
InitPipeline ==
    /\ identity = Developer
    /\ reference = NoReference
    /\ sep = "/"
    /\ rootKind = "missing"
    /\ tree = {}
    /\ backend = NoStack
    /\ faulty = {}
    /\ removed = {}
    /\ pc = "idle"
    /\ output = Pending
    /\ stack = <<>>
    /\ objects = <<>>
    /\ log = <<>>
    /\ reads = <<>>
    /\ error = "none"
    /\ remote = {}
    /\ run = 0
    /\ history = <<>>
    /\ inflight = {}
    /\ config \in Configs
    /\ clock = 1
    /\ job = NewJob(1)
    /\ resources = NoResources
    /\ traffic = <<>>
    /\ evaluations = <<>>

script == <<identity, reference, faulty, removed, output, stack, objects, log, reads, error, remote,
            run, history, inflight>>

\* The program of the stack has run once more, reading `now` from the clock:
\* unless config.require threw, it has generated a bucket name
Evaluated(now) ==
    IF requireThrows(config) THEN evaluations
    ELSE Append(evaluations,
                [stack |-> identity.stack, now |-> now,
                 bucketName |-> bucketName(config, now)])

\* uses: actions/checkout@v2
Checkout ==
    /\ Runnable("Checkout")
    /\ \E ok \in BOOLEAN : job' = IF ok THEN Passed("Checkout") ELSE Failed("StepFailed")
    /\ UNCHANGED <<sep, rootKind, tree, backend, pc, script,
                   config, clock, resources, traffic, evaluations>>

\* uses: actions/setup-node@v2
SetupNode ==
    /\ Runnable("Setup Node.js")
    /\ \E ok \in BOOLEAN : job' = IF ok THEN Passed("Setup Node.js") ELSE Failed("StepFailed")
    /\ UNCHANGED <<sep, rootKind, tree, backend, pc, script,
                   config, clock, resources, traffic, evaluations>>

\* run: npm ci
InstallDependencies ==
    /\ Runnable("Install dependencies")
    /\ \E ok \in BOOLEAN : job' = IF ok THEN Passed("Install dependencies") ELSE Failed("StepFailed")
    /\ UNCHANGED <<sep, rootKind, tree, backend, pc, script,
                   config, clock, resources, traffic, evaluations>>

\* What next build (output: 'export') writes for pages/index.js: the start
\* page index.html and, in a directory of their own, what the page loads
BuiltNodes ==
    { File(<<"index.html">>), Dir(<<"assets">>), File(<<"assets", "index.html">>) }

\* The directories "out" a build may leave: the start page is in each
BuildOutputs ==
    { t \in Trees : File(<<"index.html">>) \in t /\ t \subseteq BuiltNodes }

\* run: npm run build; a build that succeeds leaves the directory "out" with
\* the static files in it
BuildStaticSite ==
    /\ Runnable("Build static site")
    /\ \E ok \in BOOLEAN :
         IF ok
         THEN /\ job' = Passed("Build static site")
              /\ rootKind' = "dir"
              /\ tree' \in BuildOutputs
         ELSE /\ job' = Failed("StepFailed")
              /\ UNCHANGED <<rootKind, tree>>
    /\ UNCHANGED <<sep, backend, pc, script, config, clock, resources, traffic, evaluations>>

\* pulumi preview: runs the program without changing the stack
SetupPulumi ==
    /\ Runnable("Setup Pulumi")
    /\ \E ok \in BOOLEAN, now \in clock..MaxClock :
         /\ clock' = now
         /\ evaluations' = Evaluated(now)
         /\ job' = IF requireThrows(config) THEN Failed(MissingConfig)
                   ELSE IF ok THEN Passed("Setup Pulumi")
                   ELSE Failed("StepFailed")
    /\ UNCHANGED <<sep, rootKind, tree, backend, pc, script, config, resources, traffic>>

\* pulumi up: runs the program; when it succeeds the stack holds the
\* program's resources and publishes its exports.  A bucket the stack already
\* holds under the same logical name is kept as it is; one the program no
\* longer names is destroyed, and (forceDestroy: true) its objects with it
DeployInfrastructure ==
    /\ Runnable("Deploy infrastructure")
    /\ \E ok \in BOOLEAN, now \in clock..MaxClock, sfx \in Suffixes :
         /\ clock' = now
         /\ evaluations' = Evaluated(now)
         /\ IF ok /\ ~requireThrows(config)
            THEN /\ bucketName(config, now) \in DOMAIN resources =>
                       resources[bucketName(config, now)] = bucket(config, now, sfx)
                 /\ resources' = Program(config, now, sfx)
                 /\ backend' = StackWith(Exports(bucket(config, now, sfx)))
                 /\ remote' = { r \in remote : r.bucket = bucket(config, now, sfx).name }
                 /\ job' = Passed("Deploy infrastructure")
            ELSE /\ job' = Failed(IF requireThrows(config) THEN MissingConfig
                                  ELSE "StepFailed")
                 /\ UNCHANGED <<resources, backend, remote>>
    /\ UNCHANGED <<sep, rootKind, tree, pc, identity, reference, faulty, removed,
                   output, stack, objects, log, reads, error, run, history, inflight,
                   config, traffic>>

\* run: cd infra && npx ts-node upload.ts: a new process of the script
\* starts over the runner's disk, the deployed stack and its buckets; some of
\* its uploads may be going to fail
UploadStaticSite ==
    /\ Runnable("Upload static site")
    /\ pc = "idle"
    /\ pc' = "start"
    /\ run' = run + 1
    /\ reference' = NoReference
    /\ output' = Pending
    /\ stack' = <<>>
    /\ objects' = <<>>
    /\ log' = <<>>
    /\ reads' = <<>>
    /\ error' = "none"
    /\ inflight' = {}
    /\ faulty' \in { F \in SUBSET { HostPath(n.path) : n \in FilesOf(tree) } :
                       Cardinality(F) <= MaxFaults }
    /\ UNCHANGED <<site, sep, rootKind, tree, backend, removed, identity, remote,
                   history>>

\* The script's process has ended, and the step ends with its exit code: the
\* step succeeds when the process returned and fails when it threw.  A
\* process that returned has waited for the engine to store what it
\* registered; one that threw leaves behind what was not stored yet
UploadExits ==
    /\ job.status = "running"
    /\ pc \in {"done", "failed"}
    /\ pc = "done" => inflight = {}
    /\ job' = IF ExitCode = 0 THEN Passed("Upload static site") ELSE Failed("StepFailed")
    /\ pc' = "idle"
    /\ inflight' = {}
    /\ UNCHANGED <<env, reference, output, stack, objects, log, reads, error, remote,
                   run, history, config, clock, resources, traffic, evaluations>>

\* on: push: branches: [ main ]: the next push starts the job again on a
\* fresh runner
Push ==
    /\ job.status \in {"failed", "succeeded"}
    /\ job.push < MaxPushes
    /\ job' = NewJob(job.push + 1)
    /\ rootKind' = "missing"
    /\ tree' = {}
    /\ UNCHANGED <<sep, backend, pc, script, config, clock, resources, traffic, evaluations>>

\* A client sends a request to the reserved address on one of the ports
Request ==
    /\ resources # NoResources
    /\ Len(traffic) < MaxRequests
    /\ \E port \in {"80", "443"} : traffic' = Append(traffic, Answer(port))
    /\ UNCHANGED <<env, pc, script, config, clock, job, resources, evaluations>>

NextPipeline ==
    \/ Checkout
    \/ SetupNode
    \/ InstallDependencies
    \/ BuildStaticSite
    \/ SetupPulumi
    \/ DeployInfrastructure
    \/ UploadStaticSite
    \/ ResolveOutput
    \/ ApplyCallback
    \/ VisitDirectory
    \/ UploadFile
    \/ UploadThrows
    \/ StatThrows
    \/ RemoveFile
    \/ ReturnFromDirectory
    \/ Settle
    \/ UploadExits
    \/ Push

SpecPipeline == InitPipeline /\ [][NextPipeline]_vars

----------------------------------------------------------------------------
(* The deployed site *)

\* A stack that pulumi up has deployed, before any request
InitServing ==
    /\ identity = Developer
    /\ reference = NoReference
    /\ sep = "/"
    /\ rootKind = "missing"
    /\ tree = {}
    /\ faulty = {}
    /\ removed = {}
    /\ pc = "idle"
    /\ output = Pending
    /\ stack = <<>>
    /\ objects = <<>>
    /\ log = <<>>
    /\ reads = <<>>
    /\ error = "none"
    /\ remote = {}
    /\ run = 0
    /\ history = <<>>
    /\ inflight = {}
    /\ config \in { c \in Configs : ~requireThrows(c) }
    /\ clock \in 1..MaxClock
    /\ job = NoJob
    /\ traffic = <<>>
    /\ \E sfx \in Suffixes :
         /\ resources = Program(config, clock, sfx)
         /\ backend = StackWith(Exports(bucket(config, clock, sfx)))
    /\ evaluations = <<[stack |-> identity.stack, now |-> clock,
                        bucketName |-> bucketName(config, clock)]>>

SpecServing == InitServing /\ [][Request]_vars

----------------------------------------------------------------------------
(* Vocabulary of the properties *)

\* The run has ended
Ended == pc \in {"done", "failed"}

\* uploadDirectory was called in this run
Walked == reads # <<>>

\* The path of a node relative to the local root, '/'-joined, no leading slash
RECURSIVE PosixKey(_)
PosixKey(p) ==
    IF Len(p) = 1 THEN p[1] ELSE PosixKey(Parent(p)) \o "/" \o BaseName(p)

\* The objects of this run created from the file or directory n
ObjectsFor(n) == { i \in DOMAIN objects : objects[i].source = HostPath(n.path) }

\* The node an object was created from
NodeOf(o) == CHOOSE n \in tree : HostPath(n.path) = o.source

\* The extension of the file names of Universe, as path.extname gives it
extname(file) ==
    CASE file = "index.html" -> ".html"
      [] file = "style.css" -> ".css"
      [] file = "logo.png" -> ".png"
      [] OTHER -> ""

\* The content-type table the specification states
StatedType(ext) ==
    CASE ext = ".html" -> "text/html"
      [] ext = ".css" -> "text/css"
      [] ext = ".js" -> "application/javascript"
      [] OTHER -> "application/octet-stream"

\* The cache policy the specification states
StatedCache(ctype) ==
    IF ctype = "text/html" THEN "public, max-age=3600" ELSE "public, max-age=86400"

\* The key the script gives the file at p: its names joined by path.join
RECURSIVE CodeKey(_)
CodeKey(p) == IF Len(p) = 1 THEN p[1] ELSE join(CodeKey(Parent(p)), BaseName(p))

\* The websiteBucket output was resolved to a bucket name
BucketResolved == output.state = "resolved" /\ Truthy(output.value)

\* A file was deleted under the walk of this run
RemovedNow == { r.path : r \in { x \in removed : x.run = run } }

\* Every file below the local root was uploaded in this run
AllUploaded ==
    /\ RemovedNow = {}
    /\ \A n \in FilesOf(tree) : Cardinality(ObjectsFor(n)) = 1

\* The sequences of names that lead somewhere from the local root, symbolic
\* links included, as long as the kernel follows them
RECURSIVE Reach(_, _)
Reach(P, k) ==
    IF k = 0 THEN P
    ELSE Reach(P \cup UNION { { Append(p, n) : n \in Children(Locate(p)) } :
                   p \in { q \in P : LocKind(Locate(q)) = "dir" /\ LinkCount(q) <= MaxLinks } },
               k - 1)

Walkable == Reach({<<>>}, (MaxLinks + 2) * (MaxLinkNodes + 1))

\* The host path s leads to a place outside the local root
Outside(s) == \E p \in Walkable : HostPath(p) = s /\ Locate(p).zone = "out"

\* The host paths s and t lead to the same place
SamePlace(s, t) ==
    \E p, q \in Walkable : HostPath(p) = s /\ HostPath(q) = t /\ Locate(p) = Locate(q)

\* The path p lies below the directory d
IsUnder(p, d) == Len(p) > Len(d) /\ SubSeq(p, 1, Len(d)) = d

\* The files in the whole subtree of the directory d
FilesUnder(d) == { n \in FilesOf(tree) : IsUnder(n.path, d) }

\* Once an object outside a directory follows an object of its subtree, every
\* file of the subtree has its object
SubtreeBeforeSibling ==
    \A d \in DirsOf(tree) : \A i, k \in DOMAIN objects :
        (i < k /\ IsUnder(NodeOf(objects[i]).path, d.path)
               /\ ~IsUnder(NodeOf(objects[k]).path, d.path))
            => \A n \in FilesUnder(d.path) : \E m \in ObjectsFor(n) : m < k

\* Each activation of uploadDirectory is the call its caller made for the
\* entry the caller's loop took last
NestedActivations ==
    \A j \in 1..(Len(stack) - 1) :
        /\ stack[j].i > 1
        /\ stack[j + 1].directoryPath
              = join(stack[j].directoryPath, stack[j].files[stack[j].i - 1])

\* The bucket of the deployed stack
DeployedBucket ==
    CHOOSE r \in { resources[n] : n \in DOMAIN resources } : r.type = "storage.Bucket"

\* The lines of the log that announce the walk
Announcements ==
    { i \in DOMAIN log :
        \E v \in {"", BucketId} : log[i] = "Uploading static site to bucket: " \o v }

----------------------------------------------------------------------------
(* Properties *)

\* C1: a run of uploadDirectory that returns has created exactly one object
\* per non-directory file below the local root, and no two objects of the
\* run have the same key.
C1_OneObjectPerFile ==
    (pc = "done" /\ Walked) =>
        /\ Len(objects) = Cardinality(FilesOf(tree))
        /\ \A n \in FilesOf(tree) : Cardinality(ObjectsFor(n)) = 1
        /\ \A i, j \in DOMAIN objects : objects[i].name = objects[j].name => i = j

\* C1's case: a finished walk over a tree holding index.html at the root and
\* in a sub-directory
C1_Witness ==
    /\ pc = "done"
    /\ Len(objects) = 3
    /\ {File(<<"index.html">>), File(<<"assets", "index.html">>)} \subseteq tree

\* C2: the key of every object created is the path of its file relative to
\* the local root, joined with '/', whatever the host's separator is.
C2_KeyIsPosixRelativePath ==
    \A i \in DOMAIN objects :
        /\ \E n \in FilesOf(tree) : HostPath(n.path) = objects[i].source
        /\ objects[i].name = PosixKey(NodeOf(objects[i]).path)

\* C3: the content type of every object is the stated function of its file's
\* extension (.html, .css, .js, or none).
C3_ContentTypeByExtension ==
    \A i \in DOMAIN objects :
        LET ext == extname(BaseName(NodeOf(objects[i]).path)) IN
        ext \in {".html", ".css", ".js", ""} => objects[i].contentType = StatedType(ext)

\* C4: text/html objects get max-age=3600, every other content type gets
\* max-age=86400.
C4_TwoTierCachePolicy ==
    \A i \in DOMAIN objects :
        objects[i].cacheControl = StatedCache(objects[i].contentType)

\* C5: when a run that succeeded is followed by a run against the same tree
\* and stack, the second run ends without error and the store, once the
\* engine has stored what the run registered (and at every moment before),
\* holds the same objects as after the first, one per (bucket, key).
C5_SecondRunChangesNothing ==
    (run > 1 /\ Ended /\ history[run - 1].outcome = "done"
             /\ history[run - 1].tree = tree) =>
        /\ pc = "done"
        /\ error = "none"
        /\ remote = history[run - 1].remote
        /\ \A r1, r2 \in remote :
              (r1.bucket = r2.bucket /\ r1.name = r2.name) => r1 = r2

\* C5's case: the second run has ended after re-uploading at least two files
C5_Witness ==
    /\ run = 2
    /\ pc = "done"
    /\ inflight = {}
    /\ Len(objects) >= 2
    /\ history[1].outcome = "done"
    /\ Cardinality(history[1].remote) >= 2

\* C6: when exactly one file's upload fails, the run still uploads every
\* other file and ends reporting a failure.
C6_OthersStillUploaded ==
    (Ended /\ Walked /\ rootKind = "dir" /\ Cardinality(faulty) = 1) =>
        /\ \A n \in FilesOf(tree) :
              HostPath(n.path) \notin faulty => Cardinality(ObjectsFor(n)) = 1
        /\ \A n \in FilesOf(tree) :
              HostPath(n.path) \in faulty => ObjectsFor(n) = {}
        /\ error # "none"

\* C7: when the local root is missing or is not a directory, the sync ends
\* with RootNotFoundError and creates no object.
C7_RootNotFoundError ==
    (Ended /\ Walked /\ rootKind # "dir") =>
        /\ pc = "failed"
        /\ error = "RootNotFoundError"
        /\ objects = <<>>

\* C8: when the stack cannot be read or has no websiteBucket output, the
\* run ends in a failure and creates no object.
C8_UnresolvedBucketFails ==
    (Ended /\ (~backend.exists \/ "websiteBucket" \notin DOMAIN backend.outputs)) =>
        /\ pc = "failed"
        /\ objects = <<>>

\* C9: a directory is read, an activation of uploadDirectory exists or an
\* object is created only once the websiteBucket output is resolved, and
\* every activation and object carries the resolved value.
C9_ResolvedBeforeWalk ==
    (reads # <<>> \/ stack # <<>> \/ objects # <<>>) =>
        /\ output.state = "resolved"
        /\ Truthy(output.value)
        /\ \A k \in DOMAIN stack : stack[k].bucketName = output.value.value
        /\ \A i \in DOMAIN objects : objects[i].bucket = output.value.value

\* C9's case: in the middle of the walk, a sub-directory read and an object
\* created
C9_Witness ==
    /\ pc = "walking"
    /\ Len(reads) >= 2
    /\ objects # <<>>

\* C10: no directory below the local root, empty or not, is the source or
\* the key of an object, in the run or in the store; every object comes from
\* a file.
C10_NoObjectForDirectory ==
    /\ \A i \in DOMAIN objects :
          \E n \in FilesOf(tree) : HostPath(n.path) = objects[i].source
    /\ \A d \in DirsOf(tree) :
          /\ ObjectsFor(d) = {}
          /\ \A r \in remote : r.source # HostPath(d.path)

\* C10's case: a finished walk that read an empty directory and a directory
\* holding a file
C10_Witness ==
    /\ pc = "done"
    /\ Walked
    /\ inflight = {}
    /\ remote # {}
    /\ Dir(<<"assets", "img">>) \in tree
    /\ File(<<"assets", "img", "logo.png">>) \notin tree
    /\ Len(reads) = 3
    /\ objects # <<>>

\* C11: every object created has a non-empty content type, and the object of
\* a file without a resolvable extension has exactly application/octet-stream.
C11_ContentTypeNeverEmpty ==
    \A i \in DOMAIN objects :
        /\ objects[i].contentType # ""
        /\ extname(BaseName(NodeOf(objects[i]).path)) = ""
              => objects[i].contentType = "application/octet-stream"

\* C11's case: the object of the extension-less file LICENSE was created
C11_Witness ==
    \E i \in DOMAIN objects :
        /\ objects[i].source = HostPath(<<"LICENSE">>)
        /\ objects[i].contentType = "application/octet-stream"

\* C12: no directory read and no object created by the walk lies outside
\* the local root, also when the tree holds a symbolic link that leads out of
\* it.
C12_NeverLeavesRoot ==
    /\ \A j \in DOMAIN reads : ~Outside(normalize(reads[j]))
    /\ \A i \in DOMAIN objects : ~Outside(objects[i].source)

\* C13: a run over an existing local root exits with code 0 exactly when
\* the bucket was resolved and every file was uploaded.
C13_ExitCodeTellsOutcome ==
    (Ended /\ rootKind = "dir") =>
        (ExitCode = 0 <=> (BucketResolved /\ AllUploaded))

\* C14: after a permission failure no further upload is issued, whereas
\* after a transient upload failure every other file is still uploaded.
C14_OnlyAuthFailureAborts ==
    /\ error = "AuthError" => (pc = "failed" /\ stack = <<>>)
    /\ (Ended /\ error = "UploadError") =>
          \A n \in FilesOf(tree) :
              HostPath(n.path) \notin faulty => Cardinality(ObjectsFor(n)) = 1

\* C15: when a listed file is deleted before the walk reaches it, the run
\* reports a failure and still uploads every other file.
C15_RemovedFileDoesNotStopRun ==
    (Ended /\ RemovedNow # {} /\ faulty = {}) =>
        /\ error # "none"
        /\ \A n \in FilesOf(tree) : Cardinality(ObjectsFor(n)) = 1

\* C16: once the run has ended, each file below the local root has exactly
\* one result line carrying its key, and every "Uploaded" line is the line of
\* an object that was created before it and is in the store.
C16_OneResultPerFile ==
    /\ \A i \in DOMAIN log :
          \A n \in FilesOf(tree) :
              log[i] = "Uploaded: " \o CodeKey(n.path) =>
                  \E k \in ObjectsFor(n) :
                      /\ objects[k].name = CodeKey(n.path)
                      /\ Stored(objects[k]) \in remote
    /\ (Ended /\ Walked /\ rootKind = "dir") =>
          \A n \in FilesOf(tree) :
              Cardinality({ i \in DOMAIN log :
                              log[i] \in { "Uploaded: " \o CodeKey(n.path),
                                           "Failed: " \o CodeKey(n.path) } }) = 1

\* C17: a run that returns has issued exactly one write per file below the
\* local root, whatever the store held before; each write is under way or
\* in the store, and all are in the store once none is under way.
C17_OneWritePerFile ==
    (pc = "done" /\ Walked) =>
        /\ Len(objects) = Cardinality(FilesOf(tree))
        /\ \A i \in DOMAIN objects :
              objects[i] \in inflight \/ Stored(objects[i]) \in remote

\* C17's case: a second run over a store that already holds the objects
C17_Witness ==
    /\ run = 2
    /\ pc = "done"
    /\ inflight = {}
    /\ Len(objects) >= 2
    /\ Cardinality(history[1].remote) >= 2

\* C20: no directory is read twice and no file is uploaded twice by one
\* walk, also when the tree holds a symbolic link to the local root.
C20_EachNodeVisitedOnce ==
    /\ \A i, j \in DOMAIN reads :
          i # j => ~SamePlace(normalize(reads[i]), normalize(reads[j]))
    /\ \A i, j \in DOMAIN objects :
          i # j => ~SamePlace(objects[i].source, objects[j].source)

\* C18: a request on port 80 is answered with a redirect, never with site
\* content, and the HTTP proxy of a deployed stack does not use the URL map of
\* the HTTPS proxy.
C18_HttpIsRedirected ==
    \A i \in DOMAIN traffic :
        traffic[i].port = "80" =>
            /\ traffic[i].answer = "redirect"
            /\ resources["target-http-proxy"].urlMap
                  # resources["target-https-proxy"].urlMap

\* C19: the steps of a job succeed in the order of the workflow, and the
\* upload script runs only in a job whose build and deployment succeeded and
\* once the stack publishes the websiteBucket output.
C19_UploadAfterBuildAndDeploy ==
    /\ \A i \in DOMAIN job.passed : job.passed[i] = Steps[i]
    /\ pc # "idle" =>
          /\ job.status = "running"
          /\ \E i \in DOMAIN job.passed : job.passed[i] = "Build static site"
          /\ \E i \in DOMAIN job.passed : job.passed[i] = "Deploy infrastructure"
          /\ backend.exists
          /\ "websiteBucket" \in DOMAIN backend.outputs

\* C19's case: the upload script has run to its end in the job of the first
\* push, and what it registered is in the store
C19_Witness ==
    /\ pc = "done"
    /\ job.push = 1
    /\ job.status = "running"
    /\ Len(job.passed) = 6
    /\ objects # <<>>
    /\ inflight = {}

\* C21 as stated: the walk is depth-first, a directory's whole subtree being
\* processed before the next sibling, and at most one upload is under way at
\* any time.
C21_DepthFirstOneUploadAtATime ==
    /\ SubtreeBeforeSibling
    /\ NestedActivations
    /\ Cardinality(inflight) <= 1

\* C21 amended: the walk is depth-first and creates its objects one after the
\* other in that order, while the uploads under way, each of an object
\* already created, may be several.
C21_DepthFirstUploadsOverlap ==
    /\ SubtreeBeforeSibling
    /\ NestedActivations
    /\ inflight \subseteq { objects[i] : i \in DOMAIN objects }
    /\ Cardinality(inflight) <= Len(objects)

\* C21's case: a sibling was processed after a directory's subtree while two
\* uploads were under way
C21_Witness ==
    /\ Cardinality(inflight) >= 2
    /\ \E d \in DirsOf(tree) : \E i, k \in DOMAIN objects :
          /\ i < k
          /\ IsUnder(NodeOf(objects[i]).path, d.path)
          /\ ~IsUnder(NodeOf(objects[k]).path, d.path)

\* C22: all objects of a run are of one bucket, the value the websiteBucket
\* output of the stack resolves to; every activation of uploadDirectory has
\* that bucket, the outermost one is on the local root, and every source is a
\* file below the local root.
C22_OneBucketOneRoot ==
    /\ \A i, j \in DOMAIN objects : objects[i].bucket = objects[j].bucket
    /\ \A i \in DOMAIN objects :
          /\ Str(objects[i].bucket) = getOutput("websiteBucket")
          /\ \E n \in FilesOf(tree) : HostPath(n.path) = objects[i].source
    /\ \A k \in DOMAIN stack :
          /\ stack[k].bucketName = stack[1].bucketName
          /\ Str(stack[k].bucketName) = getOutput("websiteBucket")
    /\ stack # <<>> => stack[1].directoryPath = staticSitePath
    /\ reads # <<>> => reads[1] = staticSitePath

\* C22's case: an object created by a recursive call, in a call two levels
\* below the outermost
C22_Witness ==
    /\ Len(stack) >= 3
    /\ \E i \in DOMAIN objects : Len(NodeOf(objects[i]).path) >= 2

\* C23: the stack reference is named "<organization>/<project>/<stack>" after
\* what the script runs as, and the output read from it is "websiteBucket".
C23_ReferenceNamesOwnStack ==
    reference # NoReference =>
        /\ reference.name = CalledStackName(identity)
        /\ reference.output = "websiteBucket"

\* C24: no step of a run changes the stack's outputs or resources, and none
\* changes the local tree (a file that goes away was deleted by someone else);
\* a step that changes the store creates or overwrites one object the run
\* has registered, in the resolved bucket, and leaves every other object
\* alone.
C24_OnlyWritesObjects ==
    [][ /\ backend' = backend
        /\ resources' = resources
        /\ rootKind' = rootKind
        /\ tree' # tree => (tree' \subseteq tree /\ removed' # removed)
        /\ remote' # remote =>
              \E i \in DOMAIN objects :
                  LET o == objects[i] IN
                  /\ o \in inflight
                  /\ Str(o.bucket) = output.value
                  /\ Stored(o) \in remote'
                  /\ \A r \in remote' \ remote :
                        r.bucket = o.bucket /\ r.name = o.name
                  /\ \A r \in remote \ remote' :
                        r.bucket = o.bucket /\ r.name = o.name ]_vars

\* C24's case: a second run has ended over a store and a tree that the first
\* run found too
C24_Witness ==
    /\ run = 2
    /\ pc = "done"
    /\ inflight = {}
    /\ remote # {}
    /\ backend.exists
    /\ Len(objects) >= 1
    /\ history[1].tree = tree
    /\ tree # {}

\* C25: when projectName is not set, no step fails for the missing value,
\* and what is deployed carries the default name "my-awesome-site" in the
\* bucket's name and in the certificate's domain.
C25_DefaultProjectName ==
    config = Undefined =>
        /\ job.error # MissingConfig
        /\ resources # NoResources =>
              /\ \E t \in 1..MaxClock :
                    ("my-awesome-site-" \o Decimal(t)) \in DOMAIN resources
              /\ resources["ssl-certificate"].domains = <<"my-awesome-site.example.com">>

\* C26: no two runs of the stack's program generate the same bucket name,
\* whatever the clock gave them.
C26_BucketNameUnique ==
    \A i, j \in DOMAIN evaluations :
        i # j => evaluations[i].bucketName # evaluations[j].bucketName

\* C27: when the websiteBucket output resolves to undefined or to the empty
\* string, no directory is read, no activation of uploadDirectory exists, no
\* object is created and nothing is printed; in any run the walk is
\* announced and the local root read at most once.
C27_WalkOnlyWithBucketName ==
    /\ (output.state = "resolved" /\ output.value \in {Undefined, Str("")}) =>
          (reads = <<>> /\ stack = <<>> /\ objects = <<>> /\ log = <<>>)
    /\ Cardinality(Announcements) <= 1
    /\ Cardinality({ i \in DOMAIN reads : reads[i] = staticSitePath }) <= 1

\* C27's case: the run has ended over a build output with files and a stack
\* whose websiteBucket is the empty string
C27_Witness ==
    /\ pc = "done"
    /\ output = Resolved(Str(""))
    /\ FilesOf(tree) # {}

\* C28: in a deployed stack the bucket exported as websiteBucket is the one
\* the IAM binding opens and the backend bucket serves, the URL map's default
\* service is that backend bucket, both forwarding rules are on the reserved
\* address, and websiteUrl is that address's URL.
C28_ResourcesWired ==
    resources # NoResources =>
        /\ backend.exists
        /\ backend.outputs["websiteBucket"] = DeployedBucket.name
        /\ resources["bucket-iam-binding"].bucket = DeployedBucket.name
        /\ resources["bucket-iam-binding"].members = {"allUsers"}
        /\ resources["backend-bucket"].bucketName = DeployedBucket.name
        /\ resources["url-map"].defaultService = resources["backend-bucket"].selfLink
        /\ resources["https-forwarding-rule"].ipAddress = resources["static-ip"].address
        /\ resources["http-forwarding-rule"].ipAddress = resources["static-ip"].address
        /\ backend.outputs["websiteUrl"] = "https://" \o resources["static-ip"].address

\* C28's case: the stack was deployed a second time, under another bucket
\* name than the first
C28_Witness ==
    /\ resources # NoResources
    /\ job.push = 2
    /\ Len(job.passed) >= 6
    /\ \E i \in DOMAIN evaluations :
          evaluations[i].bucketName \notin DOMAIN resources

====
